---- MODULE Spec2Model ----
(***************************************************************************)
(* Axis-generic overlap and separation of two arcade physics bodies:      *)
(* Axis (the axis projector), GetOverlap (the overlap calculator),        *)
(* Process (Set, BlockCheck, Check, Run, RunImmovableBody1/2) and         *)
(* Separate (the orchestrator).                                           *)
(*                                                                         *)
(* Numbers are exact rationals <<n, d>> with d > 0 in lowest terms, so    *)
(* that mass-weighted shares and velocities are computed, not rounded.    *)
(***************************************************************************)
EXTENDS Integers, FiniteSets, Sequences, TLC

VARIABLES
    bodies,   \* the two bodies of the pair, by number
    overlapBias, \* the world's overlap bias, handed to every call of the step
    before,   \* the bodies as they were when the last call started
    last,     \* the last call: its arguments, what it returned, what ran
    calls     \* calls made so far in this step

vars == <<bodies, overlapBias, before, last, calls>>

----------------------------------------------------------------------------
(* Bounds of the model. *)

\* Longest sequence of calls within one simulation step.
MaxCalls == 2
\* Heaviest body; masses are drawn from {1, MaxMass}.
MaxMass == 3
\* Largest overlap bias of a world; biases are drawn from {0, MaxBias}.
MaxBias == 4
\* Speed of a moving body; velocities are drawn from {-MaxSpeed, 0, MaxSpeed}.
MaxSpeed == 2
\* Width and height of every body.
BodySize == 2

----------------------------------------------------------------------------
(* Exact rational arithmetic. *)

RECURSIVE Gcd(_, _)
Gcd(a, b) == IF b = 0 THEN a ELSE Gcd(b, a % b)

IAbs(n) == IF n < 0 THEN -n ELSE n

Reduce(n, d, g) == IF d < 0 THEN <<(-n) \div g, (-d) \div g>> ELSE <<n \div g, d \div g>>

Norm(n, d) == Reduce(n, d, Gcd(IAbs(n), IAbs(d)))

R(i) == <<i, 1>>
Zero == <<0, 1>>
One == <<1, 1>>
RAdd(a, b) == Norm(a[1] * b[2] + b[1] * a[2], a[2] * b[2])
RSub(a, b) == Norm(a[1] * b[2] - b[1] * a[2], a[2] * b[2])
RMul(a, b) == Norm(a[1] * b[1], a[2] * b[2])
RDiv(a, b) == Norm(a[1] * b[2], a[2] * b[1])
RNeg(a) == <<-a[1], a[2]>>
RAbs(a) == <<IAbs(a[1]), a[2]>>
RLt(a, b) == a[1] * b[2] < b[1] * a[2]
RLe(a, b) == a[1] * b[2] <= b[1] * a[2]
RMin(a, b) == IF RLt(b, a) THEN b ELSE a
RMax(a, b) == IF RLt(a, b) THEN b ELSE a

\* JavaScript null / undefined where a number is optional: no rational has
\* denominator 0.
Null == <<0, 0>>

----------------------------------------------------------------------------
(* Axis: the axis projector. *)

Axes == {"X", "Y"}

other(axis) == IF axis = "X" THEN "Y" ELSE "X"

get(axis, v) == IF axis = "X" THEN v.x ELSE v.y

set(axis, v, val) == IF axis = "X" THEN [v EXCEPT !.x = val] ELSE [v EXCEPT !.y = val]

lu(axis, v) == IF axis = "X" THEN v.left ELSE v.up

rd(axis, v) == IF axis = "X" THEN v.right ELSE v.down

\* Axis.X.setEdges: writes up/down (not left/right) and keeps none only if it
\* was set and neither up nor down is.
XsetEdges(v, l, r) ==
    LET up == l \/ v.up
        down == r \/ v.down
    IN  [v EXCEPT !.up = up, !.down = down, !.none = v.none /\ ~up /\ ~down]

\* YsetEdges assigning the arguments instead of or-ing them in: an edge that
\* is set would be cleared.
YsetEdgesClearing(v, l, r) ==
    [v EXCEPT !.up = l, !.down = r, !.none = v.none /\ ~l /\ ~r]

\* YsetEdges without the update of none.
YsetEdgesStaleNone(v, l, r) ==
    [v EXCEPT !.up = l \/ v.up, !.down = r \/ v.down]

YsetEdges(v, l, r) ==
    LET up == l \/ v.up
        down == r \/ v.down
    IN  [v EXCEPT !.up = up, !.down = down, !.none = v.none /\ ~up /\ ~down]

\* An undefined edge argument is falsy: FALSE stands for it.
setEdges(axis, v, l, r) == IF axis = "X" THEN XsetEdges(v, l, r) ELSE YsetEdges(v, l, r)

getCustomSeparate(axis, b) == IF axis = "X" THEN b.customSeparateX ELSE b.customSeparateY

inc(axis, v, val) == set(axis, v, RAdd(get(axis, v), val))

delta(axis, v1, v2) == RSub(get(axis, v1), get(axis, v2))

\* The sides of a body as the axis accessors read them: left/up are the
\* position, right/down the position plus the size.
Sides(b) ==
    [left |-> b.position.x, right |-> RAdd(b.position.x, b.width),
     up |-> b.position.y, down |-> RAdd(b.position.y, b.height)]

inOrder(axis, a, b) ==
    RLe(RAbs(RSub(rd(axis, Sides(a)), lu(axis, Sides(b)))),
        RAbs(RSub(rd(axis, Sides(b)), lu(axis, Sides(a)))))

\* The three steps of displaceTo, in the order the code takes them.
Offset(axis, body, offset) ==
    IF offset # Null THEN [body EXCEPT !.position = inc(axis, @, offset)] ELSE body

Velocity(axis, body, v) ==
    IF v # Null THEN [body EXCEPT !.velocity = set(axis, @, v)] ELSE body

Block(axis, body, blockLu, blockRd) ==
    IF blockLu \/ blockRd
    THEN [body EXCEPT !.blocked = setEdges(axis, @, blockLu, blockRd)]
    ELSE body

displaceTo(axis, body, offset, v, blockLu, blockRd) ==
    Block(axis, Velocity(axis, Offset(axis, body, offset), v), blockLu, blockRd)

----------------------------------------------------------------------------
(* GetOverlap: the overlap calculator. *)

Displacement(axis, b) == RSub(get(axis, b.position), get(axis, b.prev))

\* The test d1 === d2 narrowed to both bodies standing still.
BothStationary(d1, d2) == d1 = Zero /\ d2 = Zero

SameDisplacement(d1, d2) == d1 = d2

\* The tunneling guard and the two checkCollision tests.
Discarded(axis, minBody, maxBody, overlap, maxOverlap, overlapOnly) ==
    \/ RLt(maxOverlap, overlap) /\ ~overlapOnly
    \/ rd(axis, minBody.checkCollision) = FALSE
    \/ lu(axis, maxBody.checkCollision) = FALSE

\* StoreOverlap forgetting maxBody.
StoreOverlapMinOnly(axis, bs, mn, mx, overlap) ==
    [bs EXCEPT ![mn].overlapV = set(axis, @, overlap)]

StoreOverlap(axis, bs, mn, mx, overlap) ==
    [bs EXCEPT ![mn].overlapV = set(axis, @, overlap),
               ![mx].overlapV = set(axis, @, overlap)]

\* The touching and blocked edges of an accepted overlap.
TouchEdges(axis, bs, mn, mx, overlapOnly) ==
    LET t == [bs EXCEPT ![mn].touching = setEdges(axis, @, FALSE, TRUE),
                        ![mx].touching = setEdges(axis, @, TRUE, FALSE)]
        b1 == IF bs[mx].physicsType = "STATIC_BODY" /\ ~overlapOnly
              THEN [t EXCEPT ![mn].blocked = setEdges(axis, @, FALSE, TRUE)]
              ELSE t
    IN  IF bs[mn].physicsType = "STATIC_BODY" /\ ~overlapOnly
        THEN [b1 EXCEPT ![mx].blocked = setEdges(axis, @, TRUE, FALSE)]
        ELSE b1

RawOverlap(axis, minBody, maxBody) ==
    RSub(rd(axis, Sides(minBody)), lu(axis, Sides(maxBody)))

\* The result of GetOverlap is the new bodies, the returned overlap, which
\* branch ran and which body was minBody and which maxBody.
OverlapOfMinMax(axis, bs, mn, mx, overlapOnly, maxOverlap, raw) ==
    IF Discarded(axis, bs[mn], bs[mx], raw, maxOverlap, overlapOnly)
    THEN [bodies |-> StoreOverlap(axis, bs, mn, mx, Zero),
          ret |-> Zero, branch |-> "discarded", min |-> mn, max |-> mx]
    ELSE [bodies |-> StoreOverlap(axis, TouchEdges(axis, bs, mn, mx, overlapOnly),
                                  mn, mx, raw),
          ret |-> raw, branch |-> "accepted", min |-> mn, max |-> mx]

OverlapOfDisplacements(axis, bs, i, j, overlapOnly, bias, d1, d2) ==
    IF SameDisplacement(d1, d2)
    THEN [bodies |-> [bs EXCEPT ![i].embedded = TRUE,
                                ![j].embedded = TRUE,
                                ![i].overlapV = set(axis, @, Zero),
                                ![j].overlapV = set(axis, @, Zero)],
          ret |-> Zero, branch |-> "same", min |-> i, max |-> j]
    ELSE IF RLt(d1, d2)
    THEN OverlapOfMinMax(axis, bs, j, i, overlapOnly,
                         RAdd(RAdd(RAbs(d1), RAbs(d2)), bias),
                         RawOverlap(axis, bs[j], bs[i]))
    ELSE OverlapOfMinMax(axis, bs, i, j, overlapOnly,
                         RAdd(RAdd(RAbs(d1), RAbs(d2)), bias),
                         RawOverlap(axis, bs[i], bs[j]))

GetOverlap(axis, bs, i, j, overlapOnly, bias) ==
    OverlapOfDisplacements(axis, bs, i, j, overlapOnly, bias,
                           Displacement(axis, bs[i]), Displacement(axis, bs[j]))

----------------------------------------------------------------------------
(* Process: the collision resolution phases.  The module-level working     *)
(* values that Set assigns are the fields of the record it returns here.   *)

Set(ax, bs, b1, b2, ov) ==
    LET v1 == get(ax, bs[b1].velocity)
        v2 == get(ax, bs[b2].velocity)
        d1 == delta(ax, bs[b1].position, bs[b1].prev)
        d2 == delta(ax, bs[b2].position, bs[b2].prev)
        onLeft == inOrder(ax, bs[b1], bs[b2])
    IN  [axis |-> ax, body1 |-> b1, body2 |-> b2,
         body1Pushable |-> bs[b1].pushable,
         body1MovingLeft |-> RLt(d1, Zero),
         body1MovingRight |-> RLt(Zero, d1),
         body1Stationary |-> d1 = Zero,
         body1OnLeft |-> onLeft,
         body1FullImpact |-> RSub(v2, RMul(v1, get(ax, bs[b1].bounce))),
         body2Pushable |-> bs[b2].pushable,
         body2MovingLeft |-> RLt(d2, Zero),
         body2MovingRight |-> RLt(Zero, d2),
         body2Stationary |-> d2 = Zero,
         body2OnLeft |-> ~onLeft,
         body2FullImpact |-> RSub(v1, RMul(v2, get(ax, bs[b2].bounce))),
         overlap |-> RAbs(ov)]

\* axis.rd(body1.blocked.right) reads a side of a boolean, which is
\* undefined whatever the flag is: the test is never truthy.
rdOfFlag(axis, flag) == FALSE

BlockCheck(p, bs) ==
    LET axis == p.axis
        body1 == p.body1
        body2 == p.body2
    IN  IF p.body1MovingRight /\ p.body1OnLeft /\ rd(axis, bs[body2].blocked)
        THEN [state |-> 1,
              bodies |-> [bs EXCEPT ![body1] =
                  displaceTo(axis, @, RNeg(p.overlap), p.body1FullImpact, FALSE, TRUE)]]
        ELSE IF p.body1MovingLeft /\ p.body2OnLeft /\ lu(axis, bs[body2].blocked)
        THEN [state |-> 1,
              bodies |-> [bs EXCEPT ![body1] =
                  displaceTo(axis, @, p.overlap, p.body1FullImpact, TRUE, FALSE)]]
        ELSE IF p.body2MovingRight /\ p.body2OnLeft
                /\ rdOfFlag(axis, bs[body1].blocked.right)
        THEN [state |-> 2,
              bodies |-> [bs EXCEPT ![body2] =
                  displaceTo(axis, @, RNeg(p.overlap), p.body2FullImpact, FALSE, TRUE)]]
        ELSE IF p.body2MovingLeft /\ p.body1OnLeft /\ bs[body1].blocked.left
        THEN [state |-> 2,
              bodies |-> [bs EXCEPT ![body2] =
                  displaceTo(axis, @, p.overlap, p.body2FullImpact, TRUE, FALSE)]]
        ELSE [state |-> 0, bodies |-> bs]

centerOfMassVelocity(m1, v1, m2, v2) ==
    RDiv(RAdd(RMul(m1, v1), RMul(m2, v2)), RAdd(m1, m2))

body1MassImpact(p, bs) ==
    LET v1 == get(p.axis, bs[p.body1].velocity)
        v2 == get(p.axis, bs[p.body2].velocity)
        m1 == bs[p.body1].mass
        m2 == bs[p.body2].mass
    IN  RSub(centerOfMassVelocity(m1, v1, m2, v2),
             RDiv(RMul(RMul(get(p.axis, bs[p.body1].bounce), m2), RSub(v1, v2)),
                  RAdd(m1, m2)))

\* body2MassImpact with the sign of body1MassImpact.
body2MassImpactSameSign(p, bs) ==
    LET v1 == get(p.axis, bs[p.body1].velocity)
        v2 == get(p.axis, bs[p.body2].velocity)
        m1 == bs[p.body1].mass
        m2 == bs[p.body2].mass
    IN  RSub(centerOfMassVelocity(m1, v1, m2, v2),
             RDiv(RMul(RMul(get(p.axis, bs[p.body2].bounce), m1), RSub(v1, v2)),
                  RAdd(m1, m2)))

body2MassImpact(p, bs) ==
    LET v1 == get(p.axis, bs[p.body1].velocity)
        v2 == get(p.axis, bs[p.body2].velocity)
        m1 == bs[p.body1].mass
        m2 == bs[p.body2].mass
    IN  RAdd(centerOfMassVelocity(m1, v1, m2, v2),
             RDiv(RMul(RMul(get(p.axis, bs[p.body2].bounce), m1), RSub(v1, v2)),
                  RAdd(m1, m2)))

\* The overlap shares and impact velocities Run gathers before it applies
\* them; Null is an impact that is left null.
RunPlan(p, bs) ==
    LET body1 == bs[p.body1]
        body2 == bs[p.body2]
        totalMass == RAdd(body1.mass, body2.mass)
        v1 == get(p.axis, body1.velocity)
        v2 == get(p.axis, body2.velocity)
        none == [body1OverlapShare |-> Zero, body2OverlapShare |-> Zero,
                 body1Impact |-> Null, body2Impact |-> Null]
        byMass == [none EXCEPT !.body1OverlapShare = RDiv(body2.mass, totalMass),
                               !.body2OverlapShare = RSub(One, RDiv(body2.mass, totalMass))]
    IN  IF p.body1Pushable /\ p.body2Pushable
        THEN [byMass EXCEPT !.body1Impact = body1MassImpact(p, bs),
                            !.body2Impact = body2MassImpact(p, bs)]
        ELSE IF p.body1Pushable
        THEN [none EXCEPT !.body1OverlapShare = One, !.body1Impact = p.body1FullImpact]
        ELSE IF p.body2Pushable
        THEN [none EXCEPT !.body2OverlapShare = One, !.body2Impact = p.body2FullImpact]
        ELSE IF ~p.body1Stationary /\ ~p.body2Stationary
        THEN IF p.body1MovingLeft /\ p.body2MovingLeft
             THEN [byMass EXCEPT
                     !.body1Impact = IF p.body1OnLeft THEN RMin(v1, v2) ELSE Null,
                     !.body2Impact = IF p.body2OnLeft THEN RMin(v1, v2) ELSE Null]
             ELSE IF p.body1MovingRight /\ p.body2MovingRight
             THEN [byMass EXCEPT
                     !.body1Impact = IF p.body1OnLeft THEN Null ELSE RMax(v1, v2),
                     !.body2Impact = IF p.body2OnLeft THEN Null ELSE RMax(v1, v2)]
             ELSE [byMass EXCEPT !.body1Impact = Zero, !.body2Impact = Zero]
        ELSE IF p.body1Stationary
        THEN [none EXCEPT !.body2Impact = Zero]
        ELSE IF p.body2Stationary
        THEN [none EXCEPT !.body1Impact = Zero]
        ELSE none

\* Sides 0 and 3 push body1 toward the upper side, sides 1 and 2 toward the
\* lower side; both displacements use body1OverlapShare.
Apply(p, bs, side, plan) ==
    IF side \in {0, 3}
    THEN [bs EXCEPT
            ![p.body1] = displaceTo(p.axis, @, RMul(p.overlap, plan.body1OverlapShare),
                                    plan.body1Impact, ~p.body2Pushable, FALSE),
            ![p.body2] = displaceTo(p.axis, @,
                                    RNeg(RMul(p.overlap, plan.body1OverlapShare)),
                                    plan.body2Impact, FALSE, ~p.body1Pushable)]
    ELSE [bs EXCEPT
            ![p.body1] = displaceTo(p.axis, @,
                                    RNeg(RMul(p.overlap, plan.body1OverlapShare)),
                                    plan.body1Impact, FALSE, ~p.body2Pushable),
            ![p.body2] = displaceTo(p.axis, @, RMul(p.overlap, plan.body1OverlapShare),
                                    plan.body2Impact, ~p.body1Pushable, FALSE)]

Run(p, bs, side) == Apply(p, bs, side, RunPlan(p, bs))

\* Check: side is the case handed to Run, -1 when no case holds and Check
\* returns false.
CheckSide(p) ==
    IF p.body1MovingLeft /\ p.body2OnLeft THEN 0
    ELSE IF p.body2MovingLeft /\ p.body1OnLeft THEN 1
    ELSE IF p.body1MovingRight /\ p.body1OnLeft THEN 2
    ELSE IF p.body2MovingRight /\ p.body2OnLeft THEN 3
    ELSE -1

Check(p, bs) ==
    LET side == CheckSide(p)
    IN  IF side = -1
        THEN [ret |-> FALSE, side |-> side, bodies |-> bs]
        ELSE [ret |-> TRUE, side |-> side, bodies |-> Run(p, bs, side)]

\* The riding rule: the moving body is carried along the other axis by the
\* immovable body's displacement there times its friction there.
Carry(axis, carrier, rider) ==
    LET o == other(axis)
        carrierDelta == RSub(get(o, carrier.position), get(o, carrier.prev))
        newOther == RAdd(get(o, rider.position),
                         RMul(get(o, carrier.friction), carrierDelta))
    IN  [rider EXCEPT !.position = set(o, @, newOther)]

RunImmovableBody1(p, bs, blockedState) ==
    LET body2 == bs[p.body2]
        moved == IF blockedState = 1
                 THEN [body2 EXCEPT !.velocity = set(p.axis, @, Zero)]
                 ELSE IF p.body1OnLeft
                 THEN displaceTo(p.axis, body2, p.overlap, p.body2FullImpact, TRUE, FALSE)
                 ELSE displaceTo(p.axis, body2, RNeg(p.overlap), p.body2FullImpact,
                                 FALSE, TRUE)
    IN  [bs EXCEPT ![p.body2] =
            IF bs[p.body1].moves THEN Carry(p.axis, bs[p.body1], moved) ELSE moved]

\* With blockedState 2 the velocity is read (axis.get), not written.
RunImmovableBody2(p, bs, blockedState) ==
    LET body1 == bs[p.body1]
        moved == IF blockedState = 2
                 THEN body1
                 ELSE IF p.body2OnLeft
                 THEN displaceTo(p.axis, body1, p.overlap, p.body1FullImpact, TRUE, FALSE)
                 ELSE displaceTo(p.axis, body1, RNeg(p.overlap), p.body1FullImpact,
                                 FALSE, TRUE)
    IN  [bs EXCEPT ![p.body1] =
            IF bs[p.body2].moves THEN Carry(p.axis, bs[p.body2], moved) ELSE moved]

----------------------------------------------------------------------------
(* Separate: the orchestrator.  Beside the new bodies and the returned     *)
(* boolean the result records what ran: the overlap and branch of          *)
(* GetOverlap, the BlockCheck state (-1 when Set did not run), the phase    *)
(* that resolved the pair and the side Check chose (-1 when none).          *)

\* What a call of Separate did, when it returns at once.
Returned(o, ret) ==
    [bodies |-> o.bodies, ret |-> ret, overlap |-> o.ret, branch |-> o.branch,
     min |-> o.min, max |-> o.max, blockedState |-> -1, phase |-> "none", side |-> -1]

\* The same, when the Process phases ran.
Resolved(o, bs, ret, blockedState, phase, side) ==
    [bodies |-> bs, ret |-> ret, overlap |-> o.ret, branch |-> o.branch,
     min |-> o.min, max |-> o.max, blockedState |-> blockedState, phase |-> phase,
     side |-> side]

\* Neither body is immovable: blocked, or Check.
SeparateMovable(o, blk, chk) ==
    IF blk.state > 0
    THEN Resolved(o, blk.bodies, TRUE, blk.state, "BlockCheck", -1)
    ELSE Resolved(o, chk.bodies, chk.ret, blk.state, "Check", chk.side)

\* After Process.Set: p is what Set assigned, blk what BlockCheck returned.
SeparateAfterSet(body1Immovable, body2Immovable, o, p, blk) ==
    IF ~body1Immovable /\ ~body2Immovable
    THEN SeparateMovable(o, blk, Check(p, blk.bodies))
    ELSE IF body1Immovable
    THEN Resolved(o, RunImmovableBody1(p, blk.bodies, blk.state), TRUE, blk.state,
                  "RunImmovableBody1", -1)
    ELSE Resolved(o, RunImmovableBody2(p, blk.bodies, blk.state), TRUE, blk.state,
                  "RunImmovableBody2", -1)

SetAndBlockCheck(body1Immovable, body2Immovable, o, p) ==
    SeparateAfterSet(body1Immovable, body2Immovable, o, p, BlockCheck(p, o.bodies))

\* SeparateAfterOverlap without the two getCustomSeparate tests.
SeparateIgnoringCustom(axis, b1, b2, overlapOnly, body1Immovable, body2Immovable, o) ==
    IF \/ overlapOnly
       \/ o.ret = Zero
       \/ body1Immovable /\ body2Immovable
    THEN Returned(o, (o.ret # Zero) \/ (o.bodies[b1].embedded /\ o.bodies[b2].embedded))
    ELSE SetAndBlockCheck(body1Immovable, body2Immovable, o,
                          Set(axis, o.bodies, b1, b2, o.ret))

\* After GetOverlap: o is its result.
SeparateAfterOverlap(axis, b1, b2, overlapOnly, body1Immovable, body2Immovable, o) ==
    IF \/ overlapOnly
       \/ o.ret = Zero
       \/ body1Immovable /\ body2Immovable
       \/ getCustomSeparate(axis, o.bodies[b1])
       \/ getCustomSeparate(axis, o.bodies[b2])
    THEN Returned(o, (o.ret # Zero) \/ (o.bodies[b1].embedded /\ o.bodies[b2].embedded))
    ELSE SetAndBlockCheck(body1Immovable, body2Immovable, o,
                          Set(axis, o.bodies, b1, b2, o.ret))

Separate(axis, bs, b1, b2, overlapOnly, bias) ==
    SeparateAfterOverlap(axis, b1, b2, overlapOnly, bs[b1].immovable, bs[b2].immovable,
                         GetOverlap(axis, bs, b1, b2, overlapOnly, bias))

----------------------------------------------------------------------------
(* The bodies a step starts from.  The stepping loop has advanced position *)
(* from prev, reset touching, overlapV and embedded, and set blocked only   *)
(* where the world bounds stop a body.                                      *)

Bodies == {1, 2}

NoEdges == [none |-> TRUE, up |-> FALSE, right |-> FALSE, down |-> FALSE, left |-> FALSE]

Edge(e) == [NoEdges EXCEPT !.none = FALSE, ![e] = TRUE]

AllSides == [up |-> TRUE, right |-> TRUE, down |-> TRUE, left |-> TRUE]

Kinds == {"pushable", "unpushable", "platform", "static"}

\* Displacements since prev, as <<x, y>>.
Still == <<0, 0>>
Deltas == {Still, <<1, 1>>, <<-1, -1>>, <<1, -1>>}

Vec(x, y) == [x |-> R(x), y |-> R(y)]

\* A body of the given kind at pos that moved by d since prev; its velocity
\* is MaxSpeed per unit of displacement.  A static body does not move.
Body(kind, mass, bounce, pos, d, blocked, checkCollision, custom) ==
    LET dd == IF kind = "static" THEN Still ELSE d
    IN  [position |-> Vec(pos[1], pos[2]),
         prev |-> Vec(pos[1] - dd[1], pos[2] - dd[2]),
         velocity |-> Vec(MaxSpeed * dd[1], MaxSpeed * dd[2]),
         width |-> R(BodySize), height |-> R(BodySize),
         mass |-> R(mass),
         bounce |-> Vec(bounce, bounce),
         friction |-> Vec(1, 0),
         pushable |-> kind = "pushable",
         immovable |-> kind \in {"platform", "static"},
         moves |-> kind # "static",
         physicsType |-> IF kind = "static" THEN "STATIC_BODY" ELSE "DYNAMIC_BODY",
         checkCollision |-> checkCollision,
         touching |-> NoEdges,
         blocked |-> blocked,
         overlapV |-> Vec(0, 0),
         embedded |-> FALSE,
         customSeparateX |-> custom = "X",
         customSeparateY |-> custom = "Y"]

Origin == <<0, 0>>
\* The second body one unit into the first on both axes, or clear of it.
Near == <<BodySize - 1, BodySize - 1>>
Far == <<BodySize + 3, BodySize + 3>>

NoCall == [op |-> "none", axis |-> "X", body1 |-> 1, body2 |-> 2, overlapOnly |-> FALSE,
           overlap |-> Zero, ret |-> FALSE, branch |-> "none", min |-> 1, max |-> 2,
           blockedState |-> -1, phase |-> "none", side |-> -1]

Start(b1, b2, bs) ==
    /\ bodies = (1 :> b1) @@ (2 :> b2)
    /\ overlapBias = R(bs)
    /\ before = bodies
    /\ last = NoCall
    /\ calls = 0

BiasSet == {0, MaxBias}
MassSet == {1, MaxMass}
BounceSet == {0, 1}
BlockedSet == {NoEdges, Edge("left"), Edge("right"), Edge("up"), Edge("down")}

\* Pairs whose resolution turns on pushability, mass and bounce.
InitPush ==
    \E k1, k2 \in {"pushable", "unpushable"}, m1, m2 \in MassSet,
       e1, e2 \in BounceSet, d1, d2 \in Deltas, bs \in BiasSet :
        Start(Body(k1, m1, e1, Origin, d1, NoEdges, AllSides, "none"),
              Body(k2, m2, e2, Near, d2, NoEdges, AllSides, "none"), bs)

\* Pairs of every kind with an edge already blocked.
InitBlocked ==
    \E k1, k2 \in Kinds, d1, d2 \in Deltas, bl1, bl2 \in BlockedSet, bs \in BiasSet :
        /\ k1 = "static" => d1 = Still
        /\ k2 = "static" => d2 = Still
        /\ Start(Body(k1, 1, 1, Origin, d1, bl1, AllSides, "none"),
                 Body(k2, 1, 1, Near, d2, bl2, AllSides, "none"), bs)

\* Pairs whose extents do not intersect.
InitFar ==
    \E k1, k2 \in {"pushable", "static"}, d1, d2 \in Deltas, bs \in BiasSet :
        /\ k1 = "static" => d1 = Still
        /\ k2 = "static" => d2 = Still
        /\ Start(Body(k1, 1, 1, Origin, d1, NoEdges, AllSides, "none"),
                 Body(k2, 1, 1, Far, d2, NoEdges, AllSides, "none"), bs)

\* Pairs with a collision side switched off or a custom separation.
InitOptions ==
    \E k2 \in {"pushable", "static"}, d1, d2 \in Deltas,
       off \in {"none", "left", "right", "up", "down"}, custom \in {"none", "X", "Y"},
       bs \in BiasSet :
        /\ k2 = "static" => d2 = Still
        /\ Start(Body("pushable", 1, 1, Origin, d1, NoEdges,
                      IF off = "none" THEN AllSides ELSE [AllSides EXCEPT ![off] = FALSE],
                      custom),
                 Body(k2, 1, 1, Near, d2, NoEdges, AllSides, "none"), bs)

\* One call from any of these pairs.
InitCall == InitPush \/ InitBlocked \/ InitFar \/ InitOptions

\* The pairs that sequences of calls start from.
Init ==
    \E k1, k2 \in Kinds, d1, d2 \in {<<1, 1>>, <<-1, -1>>, <<1, -1>>},
       bl1 \in {NoEdges, Edge("left")}, bs \in BiasSet :
        /\ k1 = "static" => d1 = <<1, 1>>
        /\ k2 = "static" => d2 = <<1, 1>>
        /\ Start(Body(k1, 1, 1, Origin, d1, bl1, AllSides, "none"),
                 Body(k2, MaxMass, 0, Near, d2, NoEdges, AllSides, "none"), bs)

----------------------------------------------------------------------------
(* The calls. *)

Called(o, s) ==
    /\ bodies' = s.bodies
    /\ before' = bodies
    /\ last' = [NoCall EXCEPT !.op = o[1], !.axis = o[2], !.body1 = o[3], !.body2 = o[4],
                              !.overlapOnly = o[5], !.overlap = s.overlap, !.ret = s.ret,
                              !.branch = s.branch, !.min = s.min, !.max = s.max,
                              !.blockedState = s.blockedState, !.phase = s.phase,
                              !.side = s.side]
    /\ calls' = calls + 1
    /\ UNCHANGED overlapBias

\* computeOverlap returns a number: ret, the boolean Separate returns, is
\* left FALSE.
ComputeOverlap(axis, b1, b2, overlapOnly) ==
    Called(<<"computeOverlap", axis, b1, b2, overlapOnly>>,
           Returned(GetOverlap(axis, bodies, b1, b2, overlapOnly, overlapBias), FALSE))

SeparateCall(axis, b1, b2, overlapOnly) ==
    Called(<<"separate", axis, b1, b2, overlapOnly>>,
           Separate(axis, bodies, b1, b2, overlapOnly, overlapBias))

\* The calls a caller can make on the pair, in either argument order.
ComputeOverlapStep ==
    \E axis \in Axes, b1, b2 \in Bodies, overlapOnly \in BOOLEAN :
        b1 # b2 /\ ComputeOverlap(axis, b1, b2, overlapOnly)

SeparateStep ==
    \E axis \in Axes, b1, b2 \in Bodies, overlapOnly \in BOOLEAN :
        b1 # b2 /\ SeparateCall(axis, b1, b2, overlapOnly)

\* Any sequence of calls within one step.
Next ==
    \/ calls < MaxCalls /\ ComputeOverlapStep
    \/ calls < MaxCalls /\ SeparateStep

\* A single call.
NextCall ==
    \/ calls = 0 /\ ComputeOverlapStep
    \/ calls = 0 /\ SeparateStep

Spec == Init /\ [][Next]_vars

SpecCall == InitCall /\ [][NextCall]_vars

----------------------------------------------------------------------------
(* The properties.  A property of a call is stated of the state the call   *)
(* leaves: last names the call, before the bodies it started from.         *)

Ax == last.axis
B1 == last.body1
B2 == last.body2

\* How far a body moved on the call's axis, and its velocity there.
Moved(b) == RSub(get(Ax, bodies[b].position), get(Ax, before[b].position))
Vel(bs, b) == get(Ax, bs[b].velocity)

SamePlace(b) == bodies[b].position = before[b].position
SameVelocity(b) == bodies[b].velocity = before[b].velocity
SameFlags(b) ==
    /\ bodies[b].touching = before[b].touching
    /\ bodies[b].blocked = before[b].blocked

NoneAgrees(e) == e.none = ~(e.up \/ e.right \/ e.down \/ e.left)

\* No edge of old is cleared in new, and none is not set again.
EdgesKept(old, new) ==
    /\ old.up => new.up
    /\ old.right => new.right
    /\ old.down => new.down
    /\ old.left => new.left
    /\ ~old.none => ~new.none

\* Run was reached: neither body immovable, BlockCheck returned 0, and Check
\* found a side.
RunReached ==
    /\ last.op = "separate"
    /\ last.phase = "Check"
    /\ last.blockedState = 0
    /\ last.side \in 0..3

\* C1: separate leaves the position and the velocity of an immovable body
\* as they were, whichever argument it is.
C1_ImmovableUntouched ==
    last.op = "separate" =>
        \A b \in Bodies : before[b].immovable => SamePlace(b) /\ SameVelocity(b)

\* C2: after every call, none == !(up || right || down || left) holds of the
\* touching and of the blocked edges of every body.
C2_NoneAgrees ==
    \A b \in Bodies : NoneAgrees(bodies[b].touching) /\ NoneAgrees(bodies[b].blocked)

\* C2 witness: a second call added a blocked edge to a body that already
\* had a touching edge.
C2_Witness ==
    /\ calls >= 2
    /\ \E b \in Bodies :
        /\ ~before[b].touching.none
        /\ bodies[b].blocked # before[b].blocked

\* C3: no call clears an edge of touching or blocked that is set, and none
\* never goes back from false to true.
C3_EdgesOnlySet ==
    [][\A b \in Bodies :
        /\ EdgesKept(bodies[b].touching, bodies'[b].touching)
        /\ EdgesKept(bodies[b].blocked, bodies'[b].blocked)]_vars

\* C3 witness: a call added a touching edge to a body that already had one.
C3_Witness ==
    \E b \in Bodies :
        /\ ~before[b].touching.none
        /\ bodies[b].touching # before[b].touching

\* C4: after computeOverlap the two bodies' overlapV on the axis are equal,
\* and equal to the overlap returned.
C4_OverlapVEqual ==
    last.op = "computeOverlap" =>
        /\ get(Ax, bodies[B1].overlapV) = last.overlap
        /\ get(Ax, bodies[B2].overlapV) = last.overlap

\* C4 witness: computeOverlap accepted a nonzero overlap.
C4_Witness ==
    /\ last.op = "computeOverlap"
    /\ last.branch = "accepted"
    /\ last.overlap # Zero

\* The extents of the two bodies on the axis do not intersect.
Apart(axis, a, b) ==
    \/ RLt(rd(axis, Sides(a)), lu(axis, Sides(b)))
    \/ RLt(rd(axis, Sides(b)), lu(axis, Sides(a)))

\* C5: when the extents on the axis do not intersect, computeOverlap
\* returns 0 and changes no touching and no blocked flag.
C5_NoOpWhenApart ==
    (last.op = "computeOverlap" /\ Apart(Ax, before[B1], before[B2])) =>
        /\ last.overlap = Zero
        /\ \A b \in Bodies : SameFlags(b)

\* C6: with equal displacements on the axis computeOverlap sets embedded
\* on both bodies, zeroes overlapV on the axis, returns 0 and changes no
\* touching flag, blocked flag, position or velocity.
C6_SameDisplacementEmbeds ==
    (/\ last.op = "computeOverlap"
     /\ Displacement(Ax, before[B1]) = Displacement(Ax, before[B2])) =>
        /\ last.overlap = Zero
        /\ \A b \in Bodies :
            /\ bodies[b].embedded
            /\ get(Ax, bodies[b].overlapV) = Zero
            /\ SameFlags(b) /\ SamePlace(b) /\ SameVelocity(b)

\* C6 witness: computeOverlap ran on two bodies that moved alike, and not
\* by zero, with intersecting extents.
C6_Witness ==
    /\ last.op = "computeOverlap"
    /\ Displacement(Ax, before[B1]) = Displacement(Ax, before[B2])
    /\ Displacement(Ax, before[B1]) # Zero
    /\ ~Apart(Ax, before[B1], before[B2])
    /\ ~before[B1].embedded

\* Two pushable bodies of equal mass and opposite velocities went through Run.
C7_Case ==
    /\ RunReached
    /\ before[B1].pushable /\ before[B2].pushable
    /\ before[B1].mass = before[B2].mass
    /\ Vel(before, B2) = RNeg(Vel(before, B1))

Momentum(bs) ==
    RAdd(RMul(bs[B1].mass, Vel(bs, B1)), RMul(bs[B2].mass, Vel(bs, B2)))

C7_Mirrored ==
    /\ Vel(bodies, B2) = RNeg(Vel(bodies, B1))
    /\ Momentum(bodies) = Momentum(before)

\* C7 as stated: for every pair of bounce values, the velocities after
\* separate are negatives of each other and momentum is kept.
C7_AnyBounce == C7_Case => C7_Mirrored

\* C7 as amended: the same, when the two bodies have the same bounce on the
\* axis.
C7_EqualBounce ==
    (C7_Case /\ get(Ax, before[B1].bounce) = get(Ax, before[B2].bounce)) => C7_Mirrored

\* C7 witness: two such bodies with bounce 1 bounced off each other.
C7_Witness ==
    /\ C7_Case
    /\ get(Ax, before[B1].bounce) = One
    /\ get(Ax, before[B2].bounce) = One
    /\ Vel(before, B1) # Zero
    /\ Vel(bodies, B1) # Vel(before, B1)

\* C8: on X, with a nonzero overlap, body2 blocked on the right and body1
\* the left body moving right, separate moves body1 by -|overlap|, once,
\* and leaves body2 where it was, body2 immovable or not.
C8_BlockedVetoOnce ==
    (/\ last.op = "separate" /\ Ax = "X" /\ ~last.overlapOnly
     /\ last.overlap # Zero
     /\ ~before[B1].customSeparateX /\ ~before[B2].customSeparateX
     /\ ~before[B1].immovable
     /\ before[B2].blocked.right
     /\ RLt(Zero, Displacement("X", before[B1]))
     /\ inOrder("X", before[B1], before[B2])) =>
        /\ Moved(B1) = RNeg(RAbs(last.overlap))
        /\ SamePlace(B2)

\* C9: with both bodies pushable Run moves body1 by |overlap| m2/(m1+m2) and
\* body2 by |overlap| m1/(m1+m2), in opposite directions; with both bounces
\* 0 both end with the centre-of-momentum velocity.
C9_MassShares ==
    (RunReached /\ before[B1].pushable /\ before[B2].pushable) =>
        LET m1 == before[B1].mass
            m2 == before[B2].mass
            ov == RAbs(last.overlap)
            vcm == centerOfMassVelocity(m1, Vel(before, B1), m2, Vel(before, B2))
        IN  /\ RAbs(Moved(B1)) = RDiv(RMul(ov, m2), RAdd(m1, m2))
            /\ RAbs(Moved(B2)) = RDiv(RMul(ov, m1), RAdd(m1, m2))
            /\ RAdd(RAbs(Moved(B1)), RAbs(Moved(B2))) = ov
            /\ RLe(RMul(Moved(B1), Moved(B2)), Zero)
            /\ (get(Ax, before[B1].bounce) = Zero /\ get(Ax, before[B2].bounce) = Zero)
                    => (Vel(bodies, B1) = vcm /\ Vel(bodies, B2) = vcm)

\* The pushable body took the whole overlap and its full-impact velocity;
\* the other body kept its position and velocity.
TookAll(pushed, kept) ==
    /\ RAbs(Moved(pushed)) = RAbs(last.overlap)
    /\ Vel(bodies, pushed) =
           RSub(Vel(before, kept),
                RMul(Vel(before, pushed), get(Ax, before[pushed].bounce)))
    /\ SamePlace(kept) /\ SameVelocity(kept)

\* C10: with exactly one body pushable, Run moves that body by |overlap|,
\* gives it its full-impact velocity, and leaves the other body's position
\* and velocity alone.
C10_OnePushable ==
    /\ (RunReached /\ before[B1].pushable /\ ~before[B2].pushable) => TookAll(B1, B2)
    /\ (RunReached /\ ~before[B1].pushable /\ before[B2].pushable) => TookAll(B2, B1)

\* An immovable handler ran after BlockCheck returned 0: exactly one body is
\* immovable and the overlap is not zero.
ImmovableRan ==
    /\ last.op = "separate"
    /\ last.phase \in {"RunImmovableBody1", "RunImmovableBody2"}

Immovable == IF last.phase = "RunImmovableBody1" THEN B1 ELSE B2
Mover == IF last.phase = "RunImmovableBody1" THEN B2 ELSE B1

\* The immovable body lies on the lower side of the mover on the axis.
ImmovableBelow ==
    RLt(get(Ax, before[Immovable].position), get(Ax, before[Mover].position))

\* The name of the mover's edge that faces the immovable body.
FacingEdge ==
    IF Ax = "X"
    THEN (IF ImmovableBelow THEN "left" ELSE "right")
    ELSE (IF ImmovableBelow THEN "up" ELSE "down")

FullImpact(mover, hit) ==
    RSub(Vel(before, hit), RMul(Vel(before, mover), get(Ax, before[mover].bounce)))

\* C11: with exactly one body immovable, a nonzero overlap and BlockCheck
\* returning 0, separate moves the other body by |overlap| away from the
\* immovable one, gives it its full-impact velocity and sets its blocked
\* edge that faces the immovable body, on both axes and in either order.
C11_ImmovablePushesOther ==
    (ImmovableRan /\ last.blockedState = 0) =>
        /\ Moved(Mover) = (IF ImmovableBelow THEN RAbs(last.overlap)
                                             ELSE RNeg(RAbs(last.overlap)))
        /\ Vel(bodies, Mover) = FullImpact(Mover, Immovable)
        /\ bodies[Mover].blocked[FacingEdge]

\* A condition of the short circuit of separate holds.
ShortCircuit ==
    /\ last.op = "separate"
    /\ \/ last.overlapOnly
       \/ last.overlap = Zero
       \/ before[B1].immovable /\ before[B2].immovable
       \/ getCustomSeparate(Ax, before[B1])
       \/ getCustomSeparate(Ax, before[B2])

\* C12: when overlapOnly is true, the overlap is 0, both bodies are
\* immovable or either has customSeparate set for the axis, separate leaves
\* the position and velocity of both bodies alone and runs no Process phase.
C12_ShortCircuitFrame ==
    ShortCircuit =>
        /\ \A b \in Bodies : SamePlace(b) /\ SameVelocity(b)
        /\ last.phase = "none"
        /\ last.blockedState = -1

\* C12 witness: only customSeparate stopped a separate of an accepted,
\* nonzero overlap.
C12_Witness ==
    /\ ShortCircuit
    /\ ~last.overlapOnly
    /\ last.overlap # Zero
    /\ ~before[B1].immovable /\ ~before[B2].immovable
    /\ RLt(Zero, last.overlap)

\* C13: in any sequence of calls, separate returns true exactly when this
\* call's computeOverlap returned a nonzero overlap or took the
\* equal-displacement branch, whatever embedded flags earlier calls left.
C13_ReturnsOverlapped ==
    last.op = "separate" =>
        (last.ret <=> (last.overlap # Zero \/ last.branch = "same"))

\* The names of the lower and upper edge of the call's axis, and of the two
\* edges of the other axis.
LowerEdge == IF Ax = "X" THEN "left" ELSE "up"
UpperEdge == IF Ax = "X" THEN "right" ELSE "down"
CrossEdges == IF Ax = "X" THEN {"up", "down"} ELSE {"left", "right"}

\* C14: an accepted overlap sets the touching edges of the axis in use,
\* right of the min body and left of the max body on X, down and up on Y,
\* and changes no flag of the other axis; the blocked edges set against a
\* STATIC partner follow the same mapping.
C14_AxisEdges ==
    (last.op = "computeOverlap" /\ last.branch = "accepted") =>
        /\ bodies[last.min].touching[UpperEdge]
        /\ bodies[last.max].touching[LowerEdge]
        /\ (before[last.max].physicsType = "STATIC_BODY" /\ ~last.overlapOnly)
                => bodies[last.min].blocked[UpperEdge]
        /\ (before[last.min].physicsType = "STATIC_BODY" /\ ~last.overlapOnly)
                => bodies[last.max].blocked[LowerEdge]
        /\ \A b \in Bodies : \A e \in CrossEdges :
            /\ bodies[b].touching[e] = before[b].touching[e]
            /\ bodies[b].blocked[e] = before[b].blocked[e]

\* Set ran in the last separate and neither of the two checks of BlockCheck
\* that return 1 took the pair first.
BlockCheckPassedBody1 ==
    /\ last.op = "separate"
    /\ last.blockedState \in {0, 2}

\* BlockCheck resolved the pair by moving body2 alone by the offset.
Body2Blocked(offset) ==
    /\ last.blockedState = 2
    /\ (~before[B1].immovable /\ ~before[B2].immovable) =>
        /\ Moved(B2) = offset
        /\ SamePlace(B1)
        /\ Vel(bodies, B2) = FullImpact(B2, B1)

\* C15: BlockCheck mirrors its two body1 checks for body2, on both axes:
\* body2 moving to the upper side, on the lower side, with body1 blocked on
\* its upper edge is moved by -|overlap| and 2 is returned; body2 moving to
\* the lower side, with body1 on the lower side and blocked on its lower
\* edge, is moved by +|overlap| and 2 is returned.
C15_BlockCheckSymmetric ==
    /\ (/\ BlockCheckPassedBody1
        /\ RLt(Zero, Displacement(Ax, before[B2]))
        /\ ~inOrder(Ax, before[B1], before[B2])
        /\ before[B1].blocked[UpperEdge]) => Body2Blocked(RNeg(RAbs(last.overlap)))
    /\ (/\ BlockCheckPassedBody1
        /\ RLt(Displacement(Ax, before[B2]), Zero)
        /\ inOrder(Ax, before[B1], before[B2])
        /\ before[B1].blocked[LowerEdge]) => Body2Blocked(RAbs(last.overlap))

\* C16: whenever separate reaches Check (nonzero overlap, overlapOnly
\* false, neither body immovable, no customSeparate, BlockCheck returned
\* 0), one of the four directional cases holds, Run gets a side in 0..3 and
\* separate returns true.
C16_CheckClassifies ==
    (last.op = "separate" /\ last.phase = "Check") =>
        /\ last.side \in 0..3
        /\ last.ret

\* An immovable handler ran with the blockedState that names its own
\* already-blocked branch.
AlreadyBlocked ==
    /\ ImmovableRan
    /\ \/ last.phase = "RunImmovableBody1" /\ last.blockedState = 1
       \/ last.phase = "RunImmovableBody2" /\ last.blockedState = 2

\* C17: in the already-blocked branch of either immovable handler the
\* velocity of the body that is not immovable is 0 on the axis when the
\* handler returns, and the handler moves neither body on the axis: the
\* only displacement is the one BlockCheck made, of the body it moved.
C17_AlreadyBlockedStops ==
    AlreadyBlocked =>
        /\ Vel(bodies, Mover) = Zero
        /\ Moved(Mover) = Zero
        /\ RAbs(Moved(Immovable)) = RAbs(last.overlap)

====
